---- MODULE Spec2Model ----
(***************************************************************************)
(* TaskOS dispatch simulation (taskos_sim.py).                             *)
(*                                                                         *)
(* The simulation runs on a simpy Environment: a queue of events ordered   *)
(* by (time, priority, event id).  Every process (one generator per        *)
(* property, one dispatch per task) is resumed by the event it waits for   *)
(* and runs to its next yield.  One action of this module is one such      *)
(* resumption, with every random draw it makes chosen by \E.               *)
(*                                                                         *)
(* Units.  Virtual time is counted in ticks, TicksPerMinute to the minute, *)
(* so that the fractional minutes of travel and work exist in the model.   *)
(* Distances are whole kilometres, money is whole cents (a payout before   *)
(* rounding is in tenths of a cent), probabilities are percent.            *)
(***************************************************************************)
EXTENDS Integers, Sequences, FiniteSets, TLC

\* Three ticks to the tenth of a minute: a time rounded to one decimal
\* never sits on a tie.
TicksPerMinute == 3 * 10

\* ---- bounds of the model ----
\* Dispatch processes spawned in one run (arrivals beyond it are dropped).
MaxTasks == 2
\* Horizon, in minutes, of the mixed scenario.
Horizon == 4

\* Horizon, in minutes, of the scenario whose travel takes 15 minutes.
SureHorizon == 18

\* ---- program constants ----
MaxOffers == 10
IdLow == 1000
IdHigh == 9999

\* Values random.random() takes in the model, in percent of [0, 1).
RandVals == {0, 50, 99}
\* Values random.randint(1000, 9999) takes in the model.
IdDraws == {IdLow, IdHigh}
\* Values random.lognormvariate takes in the model, in ticks: one below the
\* one-minute floor, one a tick above it.
WorkSamples == {TicksPerMinute \div 2, TicksPerMinute + 1}

Min(a, b) == IF a <= b THEN a ELSE b
Max(a, b) == IF a >= b THEN a ELSE b
Abs(x) == IF x >= 0 THEN x ELSE -x

\* round(x, nd) for x = n / d counted in the unit of the result: the nearest
\* integer, a tie going to the even one.
RoundDiv(n, d) ==
  LET q == n \div d
      r == n % d
  IN  IF 2 * r < d THEN q
      ELSE IF 2 * r > d THEN q + 1
      ELSE IF q % 2 = 0 THEN q ELSE q + 1

\* round(minutes, 1): ticks to tenths of a minute.
Round1(t) == RoundDiv(t * 10, TicksPerMinute)
\* round(payout, 2): tenths of a cent to cents.
Round2(p) == RoundDiv(p, 10)

(***************************************************************************)
(* Scenarios: the input of a run.                                          *)
(***************************************************************************)
TaskType(name, mean, skill, base, sla) ==
  [name |-> name, mean_duration |-> mean, skill |-> skill,
   base_payout |-> base, sla_minutes |-> sla]

PropertyNode(id, name, lat, rates) ==
  [id |-> id, name |-> name, lat |-> lat, task_rates_per_hour |-> rates]

Worker(id, lat, skills, speed, acc, rel) ==
  [id |-> id, lat |-> lat, skills |-> skills, speed_kmph |-> speed,
   acceptance_rate |-> acc, reliability |-> rel]

\* Task types of the model: SLA thresholds in minutes, base payouts in cents.
Catalog ==
  [Cleaning |-> TaskType("Cleaning", 45, "clean", 1234, 2),
   Audit    |-> TaskType("Audit", 20, "audit", 0, 3)]

\* One property with two task types and workers of every kind: in range
\* and skilled (the farther one first in the list), unskilled, out of
\* range; a second property nobody reaches.
MixedScenario ==
  [name |-> "mixed",
   properties |-> << PropertyNode(0, "Property-000", 0,
                                  << <<"Cleaning", 30>>, <<"Audit", 30>> >>),
                     PropertyNode(1, "Property-001", 40,
                                  << <<"Cleaning", 30>> >>) >>,
   workers |-> << Worker(1, 2, {"clean"}, 90, 100, 100),
                  Worker(0, 1, {"clean", "audit"}, 60, 50, 50),
                  Worker(2, 1, {"tech"}, 60, 100, 100),
                  Worker(3, 20, {"clean", "audit"}, 60, 100, 100) >>,
   task_types |-> Catalog,
   max_radius_km |-> 15,
   sim_minutes |-> Horizon]

\* Eleven qualifying workers at 1..11 km: the ten nearest never accept, the
\* eleventh always would.
CrowdScenario ==
  [name |-> "crowd",
   properties |-> << PropertyNode(0, "Property-000", 0,
                                  << <<"Cleaning", 30>> >>) >>,
   workers |-> [i \in 1..(MaxOffers + 1) |->
                  Worker(i - 1, i, {"clean"}, 60,
                         IF i <= MaxOffers THEN 0 ELSE 100, 100)],
   task_types |-> Catalog,
   max_radius_km |-> 15,
   sim_minutes |-> MaxOffers + 2]

\* No worker at all; one rate of 120 an hour, one of 30.
EmptyScenario ==
  [name |-> "empty",
   properties |-> << PropertyNode(0, "Property-000", 0,
                                  << <<"Cleaning", 120>>, <<"Audit", 30>> >>) >>,
   workers |-> << >>,
   task_types |-> Catalog,
   max_radius_km |-> 15,
   sim_minutes |-> Horizon]

\* A single worker, who never accepts.
RejectScenario ==
  [name |-> "reject",
   properties |-> << PropertyNode(0, "Property-000", 0,
                                  << <<"Cleaning", 30>> >>) >>,
   workers |-> << Worker(0, 1, {"clean"}, 60, 0, 100) >>,
   task_types |-> Catalog,
   max_radius_km |-> 15,
   sim_minutes |-> Horizon]

\* The scenario of section 8 of the specification: Cleaning at a property
\* with one skilled worker in range, 5 km away at 20 km/h, who always
\* accepts and always completes; the other workers do not qualify.  The
\* SLA threshold is the wait of a task whose work takes one minute.
SureScenario ==
  [name |-> "sure",
   properties |-> << PropertyNode(0, "Property-000", 0,
                                  << <<"Cleaning", 120>> >>) >>,
   workers |-> << Worker(0, 3, {"audit"}, 60, 100, 100),
                  Worker(1, 5, {"clean"}, 20, 100, 100),
                  Worker(2, 16, {"clean"}, 60, 100, 100) >>,
   task_types |-> [Cleaning |-> TaskType("Cleaning", 45, "clean", 1234, 16)],
   max_radius_km |-> 15,
   sim_minutes |-> SureHorizon]

\* Two workers at the same place, 1 km away: the first in the list has
\* both skills and never accepts, the second cleans, always accepts and
\* arrives in half a minute.
BackoffScenario ==
  [name |-> "backoff",
   properties |-> << PropertyNode(0, "Property-000", 0,
                                  << <<"Cleaning", 30>>, <<"Audit", 30>> >>) >>,
   workers |-> << Worker(0, 1, {"clean", "audit"}, 60, 0, 100),
                  Worker(1, 1, {"clean"}, 120, 100, 50) >>,
   task_types |-> Catalog,
   max_radius_km |-> 15,
   sim_minutes |-> Horizon]

Scenarios ==
  {MixedScenario, CrowdScenario, EmptyScenario, RejectScenario, SureScenario,
   BackoffScenario}

\* Configurations that are in error: a horizon of zero and a negative one,
\* a rate map naming a task type the catalog lacks, properties and workers
\* sharing an id.
ZeroHorizonScenario ==
  [MixedScenario EXCEPT !.name = "zero horizon", !.sim_minutes = 0]
NegativeHorizonScenario ==
  [MixedScenario EXCEPT !.name = "negative horizon", !.sim_minutes = -1]
MissingTypeScenario ==
  [MixedScenario EXCEPT
     !.name = "missing type",
     !.properties = << PropertyNode(0, "Property-000", 0,
                          << <<"Cleaning", 30>>, <<"Marketing", 30>> >>) >>]
DuplicateIdScenario ==
  [MixedScenario EXCEPT
     !.name = "duplicate ids",
     !.properties = << PropertyNode(0, "Property-000", 0,
                                    << <<"Cleaning", 30>> >>),
                       PropertyNode(0, "Property-001", 40,
                                    << <<"Cleaning", 30>> >>) >>,
     !.workers = << Worker(0, 1, {"clean"}, 60, 50, 50),
                    Worker(0, 2, {"clean"}, 90, 100, 100) >>]
ConfigErrorScenarios ==
  {ZeroHorizonScenario, NegativeHorizonScenario, MissingTypeScenario,
   DuplicateIdScenario}

VARIABLES
  scn,        \* the scenario and configuration of the run
  status,     \* "ready" after construction, "running", "stopped" (run()
              \* returned), "error" (run() raised)
  now,        \* env.now, in ticks
  queue,      \* the environment's scheduled events
  eid,        \* the environment's event counter
  tasks,      \* the dispatch processes, in spawning order
  event_log   \* sim.event_log

vars == <<scn, status, now, queue, eid, tasks, event_log>>


(***************************************************************************)
(* Geo utilities.  Properties and workers of the model lie on one          *)
(* meridian, where the haversine distance is the arc between the two       *)
(* latitudes; a latitude is given as kilometres of arc from the equator.   *)
(***************************************************************************)
haversine_km(lat1, lat2) == Abs(lat2 - lat1)

\* travel_minutes_km without the conversion of hours to minutes.
travel_hours_km(distance_km, speed_kmph) ==
  IF speed_kmph >= 1
    THEN (distance_km * TicksPerMinute) \div speed_kmph
    ELSE distance_km * TicksPerMinute * 1000000

\* (distance_km / max(speed_kmph, 1e-6)) * 60.0, in ticks.
travel_minutes_km(distance_km, speed_kmph) ==
  IF speed_kmph >= 1
    THEN (distance_km * 60 * TicksPerMinute) \div speed_kmph
    ELSE distance_km * 60 * TicksPerMinute * 1000000

(***************************************************************************)
(* TaskOSSim: the pure methods.                                            *)
(***************************************************************************)
\* Qualifies without the skill test.
QualifiesAnySkill(w, task_type, d, max_radius_km) == d <= max_radius_km

\* Qualifies with a reservation: a worker who is traveling to a task or
\* working on one is not a candidate for another.
QualifiesIfFree(w, task_type, d, max_radius_km) ==
  /\ task_type.skill \in w.skills
  /\ d <= max_radius_km
  /\ \A j \in 1..Len(tasks) :
       tasks[j].pc \in {"traveling", "working"} =>
         scn.workers[tasks[j].accepted_by] # w

\* The test of find_candidates' loop body on worker w at distance d.
Qualifies(w, task_type, d, max_radius_km) ==
  /\ task_type.skill \in w.skills
  /\ d <= max_radius_km

\* InsertByDistance without the sort: the list order of the workers is kept.
InsertLast(c, x) == Append(c, x)

\* list.sort(key = distance) is stable: x goes behind every entry that is
\* no farther than it.
RECURSIVE InsertByDistance(_, _)
InsertByDistance(c, x) ==
  IF c = <<>> THEN <<x>>
  ELSE IF x[2] < Head(c)[2] THEN <<x>> \o c
  ELSE <<Head(c)>> \o InsertByDistance(Tail(c), x)

\* The candidates among the first n workers, as pairs <<worker index, km>>.
RECURSIVE CandidatesUpTo(_, _, _, _, _)
CandidatesUpTo(workers, n, task_type, lat, max_radius_km) ==
  IF n = 0 THEN <<>>
  ELSE LET rest == CandidatesUpTo(workers, n - 1, task_type, lat, max_radius_km)
           d == haversine_km(lat, workers[n].lat)
       IN  IF Qualifies(workers[n], task_type, d, max_radius_km)
             THEN InsertByDistance(rest, <<n, d>>)
             ELSE rest

find_candidates(workers, task_type, lat, max_radius_km) ==
  CandidatesUpTo(workers, Len(workers), task_type, lat, max_radius_km)
\* Attempted without the slice: the loop runs over every candidate.
AttemptedAll(candidates) == candidates

\* candidates[:10], the candidates the offer loop iterates over.
Attempted(candidates) ==
  SubSeq(candidates, 1, Min(MaxOffers, Len(candidates)))

\* max(1.0, random.lognormvariate(mu, sigma)), the draw given in ticks.
sample_duration(sample) == Max(TicksPerMinute, sample)

\* offer_to_worker with <= for <.
offer_to_worker_inclusive(worker, r) == r <= worker.acceptance_rate

\* random.random() < worker.acceptance_rate, both in percent.
offer_to_worker(worker, r) == r < worker.acceptance_rate

\* random.random() < worker.reliability
complete_task(worker, r) == r < worker.reliability
\* pay with the comparison strict.
pay_strict(base_payout, wait_minutes, sla_minutes) ==
  IF wait_minutes < sla_minutes * TicksPerMinute
    THEN base_payout * 11
    ELSE base_payout * 9

\* base_payout * 1.1 or * 0.9, in tenths of a cent; wait in ticks, SLA in
\* minutes.
pay(base_payout, wait_minutes, sla_minutes) ==
  IF wait_minutes <= sla_minutes * TicksPerMinute
    THEN base_payout * 11
    ELSE base_payout * 9

\* wait_minutes <= ttype.sla_minutes, as the record's flag computes it.
within_sla(wait_minutes, sla_minutes) ==
  wait_minutes <= sla_minutes * TicksPerMinute
\* payout_of without the completion test.
payout_regardless(completed, base_payout, wait_minutes, sla_minutes) ==
  pay(base_payout, wait_minutes, sla_minutes)

\* payout = pay(...) if completed else 0.0
payout_of(completed, base_payout, wait_minutes, sla_minutes) ==
  IF completed THEN pay(base_payout, wait_minutes, sla_minutes) ELSE 0

\* f"T{int(self.env.now)}-{prop.id}-{random.randint(1000,9999)}": the three
\* numbers the string is made of determine it.
task_id_of(t, prop_id, n) == <<t \div TicksPerMinute, prop_id, n>>

\* arrivals as a count of whole arrivals per minute: two at 120 an hour.
arrivals_scaled(rate_per_hour, r) ==
  rate_per_hour \div 60
    + (IF r * 60 < (rate_per_hour % 60) * 100 THEN 1 ELSE 0)

\* log putting the record in front of the list.
log_prepend(l, rec) == <<rec>> \o l

\* arrivals = 1 if random.random() < rate_per_hour / 60.0 else 0
arrivals(rate_per_hour, r) == IF r * 60 < rate_per_hour * 100 THEN 1 ELSE 0
\* log assigning the list instead of appending to it.
log_assign(l, rec) == <<rec>>

\* TaskOSSim.log
log(l, rec) == Append(l, rec)


(***************************************************************************)
(* The simpy environment.  An event is scheduled with                      *)
(* (env.now + delay, priority, event id); step() pops the least one.       *)
(* Initialize events (env.process) and the until event of run() are        *)
(* URGENT, Timeout events are NORMAL.  The event a process triggers when   *)
(* its generator returns has no callback and is left out of the queue;     *)
(* the one it triggers when its generator raises is a NORMAL event of kind *)
(* "crash", and step() raises the exception when it pops it.               *)
(***************************************************************************)
Event(t, urgent, id, kind, ref) ==
  [time |-> t, urgent |-> urgent, eid |-> id, kind |-> kind, ref |-> ref]

\* Before with the priorities exchanged: at one time a Timeout is popped
\* ahead of an URGENT event.
BeforeNormalFirst(a, b) ==
  \/ a.time < b.time
  \/ /\ a.time = b.time
     /\ \/ ~a.urgent /\ b.urgent
        \/ a.urgent = b.urgent /\ a.eid < b.eid

\* The heap order of two scheduled events.
Before(a, b) ==
  \/ a.time < b.time
  \/ /\ a.time = b.time
     /\ \/ a.urgent /\ ~b.urgent
        \/ a.urgent = b.urgent /\ a.eid < b.eid

\* The event step() pops.
NextEvent == CHOOSE e \in queue : \A f \in queue : f = e \/ Before(e, f)
\* until_at one minute late.
until_late(sim_minutes) == (sim_minutes + 1) * TicksPerMinute

\* env.run(until = sim_minutes): the time of the until event, in ticks.
until_at(sim_minutes) == sim_minutes * TicksPerMinute

(***************************************************************************)
(* Dispatch processes.  pc is the point the generator function is          *)
(* suspended at: "created" (Initialize pending), "offering" (the timeout   *)
(* of a rejection), "traveling", "working", "done" (returned).  offered    *)
(* and logged are history: the workers offer_to_worker was called with,    *)
(* and the positions in the log of the records the process appended.       *)
(***************************************************************************)
NewTask(p, tname) ==
  [pc |-> "created", prop |-> p, type |-> tname, start_time |-> 0,
   task_id |-> <<>>, candidates |-> <<>>, next |-> 1, offered |-> <<>>,
   accepted_by |-> 0, dist_km |-> 0, travel_mins |-> 0, work_duration |-> 0,
   outcome |-> "", logged |-> <<>>]

\* The records of lines 99 and 109.
ShortRecord(t, time, event) ==
  [time |-> time, event |-> event, task_id |-> t.task_id,
   property |-> scn.properties[t.prop].name, type |-> t.type]

\* The record of lines 119-126: minutes in tenths, kilometres in
\* hundredths, payout in cents.
FullRecord(t, finish_time, completed) ==
  LET ttype == scn.task_types[t.type]
      wait_minutes == finish_time - t.start_time
      payout == payout_of(completed, ttype.base_payout, wait_minutes,
                          ttype.sla_minutes)
  IN  [time |-> finish_time,
       event |-> IF completed THEN "task_completed" ELSE "task_failed",
       task_id |-> t.task_id,
       property |-> scn.properties[t.prop].name,
       type |-> t.type,
       worker_id |-> scn.workers[t.accepted_by].id,
       distance_km |-> t.dist_km * 100,
       travel_minutes |-> Round1(t.travel_mins),
       work_minutes |-> Round1(t.work_duration),
       wait_minutes |-> Round1(wait_minutes),
       within_sla |-> within_sla(wait_minutes, ttype.sla_minutes),
       payout |-> Round2(payout)]

\* What one resumption of a dispatch process does: the process afterwards,
\* the delay of the timeout it yields (-1 when it returns) and the records
\* it logs.
Suspended(t, delay) ==
  [task |-> t, delay |-> delay, recs |-> <<>>, raised |-> FALSE]
\* Returned without the log() call.
ReturnedUnlogged(t, outcome, rec) ==
  [task |-> [t EXCEPT !.pc = "done", !.outcome = outcome],
   delay |-> -1, recs |-> <<>>, raised |-> FALSE]
Returned(t, outcome, rec) ==
  [task |-> [t EXCEPT !.pc = "done", !.outcome = outcome],
   delay |-> -1, recs |-> <<rec>>, raised |-> FALSE]
\* The generator raised: the process fails, its event is scheduled at once.
Raised(t) ==
  [task |-> [t EXCEPT !.pc = "raised"], delay |-> 0, recs |-> <<>>,
   raised |-> TRUE]

\* offer_latency without the wait after the last attempted candidate.
offer_latency_between(t) ==
  IF t.next < Len(Attempted(t.candidates)) THEN TicksPerMinute ELSE 0

\* yield self.env.timeout(1) after the rejection by candidate t.next.
offer_latency(t) == TicksPerMinute

\* One pass of the offer loop's body, lines 102-107, at candidate t.next.
Offer(t, r) ==
  LET c == Attempted(t.candidates)[t.next]
      worker == scn.workers[c[1]]
      t1 == [t EXCEPT !.offered = Append(@, c[1])]
  IN  IF offer_to_worker(worker, r)
        THEN LET travel_mins == travel_minutes_km(c[2], worker.speed_kmph)
             IN  Suspended([t1 EXCEPT !.pc = "traveling",
                                      !.accepted_by = c[1],
                                      !.dist_km = c[2],
                                      !.travel_mins = travel_mins],
                           travel_mins)
        ELSE Suspended([t1 EXCEPT !.pc = "offering", !.next = @ + 1],
                       offer_latency(t1))

\* The loop header and what follows the loop, lines 102 and 108-110.
OfferLoop(t, time, r) ==
  IF t.next <= Len(Attempted(t.candidates))
    THEN Offer(t, r)
    ELSE Returned(t, "unaccepted", ShortRecord(t, time, "task_unaccepted"))

\* dispatch_task resumed at time `time`, with the draws it may take:
\* n of randint, r of random, s of lognormvariate.
dispatch_task(t, time, n, r, s) ==
  CASE t.pc = "created" ->
         \* self.task_types[task_type_name] raises KeyError
         IF t.type \notin DOMAIN scn.task_types
           THEN Raised([t EXCEPT !.start_time = time])
           ELSE
         LET prop == scn.properties[t.prop]
             ttype == scn.task_types[t.type]
             t1 == [t EXCEPT !.start_time = time,
                             !.task_id = task_id_of(time, prop.id, n),
                             !.candidates =
                                find_candidates(scn.workers, ttype, prop.lat,
                                                scn.max_radius_km)]
         IN  IF t1.candidates = <<>>
               THEN Returned(t1, "no_candidates",
                             ShortRecord(t1, time, "task_failed_no_candidates"))
               ELSE OfferLoop(t1, time, r)
    [] t.pc = "offering" -> OfferLoop(t, time, r)
    [] t.pc = "traveling" ->
         LET work_duration == sample_duration(s)
         IN  Suspended([t EXCEPT !.pc = "working",
                                 !.work_duration = work_duration],
                       work_duration)
    [] t.pc = "working" ->
         LET completed == complete_task(scn.workers[t.accepted_by], r)
         IN  Returned(t, IF completed THEN "completed" ELSE "failed",
                      FullRecord(t, time, completed))

\* The values a draw ranges over in a resumption from pc: all of them where
\* the code reached from there can take the draw, one (unused) elsewhere.
DrawsAt(t, pcs, values) ==
  IF t.pc \in pcs THEN values ELSE {CHOOSE v \in values : TRUE}

RECURSIVE LogAll(_, _)
LogAll(l, recs) ==
  IF recs = <<>> THEN l ELSE LogAll(log(l, Head(recs)), Tail(recs))

\* The task types of a rate map whose draw gives an arrival, in the map's
\* order, among the first n entries.
RECURSIVE Spawned(_, _, _)
Spawned(rates, draws, n) ==
  IF n = 0 THEN <<>>
  ELSE Spawned(rates, draws, n - 1)
         \o [k \in 1..arrivals(rates[n][2], draws[n]) |-> rates[n][1]]

(***************************************************************************)
(* The run.                                                                *)
(***************************************************************************)
\* TaskOSSim.__init__ has run on a scenario of S: one generator process per
\* property.
InitWith(S) ==
  /\ scn \in S
  /\ status = "ready"
  /\ now = 0
  /\ queue = {Event(0, TRUE, i - 1, "gen", i) : i \in 1..Len(scn.properties)}
  /\ eid = Len(scn.properties)
  /\ tasks = <<>>
  /\ event_log = <<>>

\* env.run(until = sim_minutes) schedules the until event; simpy raises
\* ValueError when until is not after env.now.
Run ==
  /\ status = "ready"
  /\ IF until_at(scn.sim_minutes) <= now
       THEN /\ status' = "error"
            /\ UNCHANGED <<queue, eid>>
       ELSE /\ status' = "running"
            /\ queue' = queue \cup
                 {Event(now + (until_at(scn.sim_minutes) - now), TRUE,
                        eid, "until", 0)}
            /\ eid' = eid + 1
  /\ UNCHANGED <<scn, now, tasks, event_log>>

\* run() ends: the until event is popped and StopSimulation ends it, or
\* the event of a failed process is popped and its exception leaves run().
Stop ==
  /\ status = "running"
  /\ NextEvent.kind \in {"until", "crash"}
  /\ now' = NextEvent.time
  /\ queue' = queue \ {NextEvent}
  /\ status' = IF NextEvent.kind = "until" THEN "stopped" ELSE "error"
  /\ UNCHANGED <<scn, eid, tasks, event_log>>

\* property_task_generator is resumed: by its Initialize event it runs to
\* the first timeout, by a timeout it draws once per task type, spawns the
\* arrivals and yields the next timeout.
GeneratorStep ==
  /\ status = "running"
  /\ NextEvent.kind = "gen"
  /\ LET ev == NextEvent
         rates == scn.properties[ev.ref].task_rates_per_hour
     IN  /\ now' = ev.time
         /\ \E draws \in [1..Len(rates) -> RandVals] :
              LET hits == IF ev.urgent THEN <<>>
                          ELSE Spawned(rates, draws, Len(rates))
                  new == SubSeq(hits, 1, Min(Len(hits), MaxTasks - Len(tasks)))
                  k == Len(new)
              IN  /\ tasks' = tasks \o [i \in 1..k |-> NewTask(ev.ref, new[i])]
                  /\ queue' = (queue \ {ev})
                       \cup {Event(ev.time, TRUE, eid + i - 1, "task",
                                   Len(tasks) + i) : i \in 1..k}
                       \cup {Event(ev.time + TicksPerMinute, FALSE, eid + k,
                                   "gen", ev.ref)}
                  /\ eid' = eid + k + 1
  /\ UNCHANGED <<scn, status, event_log>>

\* A dispatch process is resumed and runs to its next yield or its return.
DispatchStep ==
  /\ status = "running"
  /\ NextEvent.kind = "task"
  /\ LET ev == NextEvent
     IN  /\ now' = ev.time
         /\ \E n \in DrawsAt(tasks[ev.ref], {"created"}, IdDraws),
               r \in DrawsAt(tasks[ev.ref], {"created", "offering", "working"},
                             RandVals),
               s \in DrawsAt(tasks[ev.ref], {"traveling"}, WorkSamples) :
              LET res == dispatch_task(tasks[ev.ref], ev.time, n, r, s)
              IN  /\ tasks' = [tasks EXCEPT ![ev.ref] =
                                 [res.task EXCEPT !.logged = @ \o
                                    [j \in 1..Len(res.recs) |->
                                       Len(event_log) + j]]]
                  /\ event_log' = LogAll(event_log, res.recs)
                  /\ IF res.delay >= 0
                       THEN /\ queue' = (queue \ {ev}) \cup
                                 {Event(ev.time + res.delay, FALSE, eid,
                                        IF res.raised THEN "crash" ELSE "task",
                                        ev.ref)}
                            /\ eid' = eid + 1
                       ELSE /\ queue' = queue \ {ev}
                            /\ eid' = eid
  /\ UNCHANGED <<scn, status>>

Next == Run \/ GeneratorStep \/ DispatchStep \/ Stop

Init == InitWith(Scenarios)
Spec == Init /\ [][Next]_vars

\* Runs on the configurations in error.
InitConfig == InitWith(ConfigErrorScenarios)
SpecConfig == InitConfig /\ [][Next]_vars


(***************************************************************************)
(* Properties.                                                             *)
(***************************************************************************)
LogIndex == 1..Len(event_log)
TaskIndex == 1..Len(tasks)
HorizonTicks == scn.sim_minutes * TicksPerMinute
FailureKinds == {"task_failed", "task_unaccepted", "task_failed_no_candidates"}
AcceptedKinds == {"task_completed", "task_failed"}
IsPrefix(a, b) == Len(a) <= Len(b) /\ SubSeq(b, 1, Len(a)) = a
\* The scenario's entities a record names.
WorkersWithId(id) ==
  {w \in 1..Len(scn.workers) : scn.workers[w].id = id}
PropertiesNamed(name) ==
  {q \in 1..Len(scn.properties) : scn.properties[q].name = name}
\* The requirement on a candidate: the skill, and the arc within the radius.
MeetsRequirement(w, q, tname) ==
  /\ scn.task_types[tname].skill \in scn.workers[w].skills
  /\ scn.workers[w].lat - scn.properties[q].lat <= scn.max_radius_km
  /\ scn.properties[q].lat - scn.workers[w].lat <= scn.max_radius_km

\* C1: every record of the event log has a time >= 0 and <= the horizon of
\* the run.
C1_TimestampsWithinHorizon ==
  \A i \in LogIndex :
    event_log[i].time >= 0 /\ event_log[i].time <= HorizonTicks

\* A record is logged in the last minute before the horizon.
C1_Witness ==
  \E i \in LogIndex :
    event_log[i].time > HorizonTicks - TicksPerMinute

\* C2: no two dispatch processes of a run carry the same task id, whatever
\* the random draws.
C2_TaskIdsUnique ==
  \A i, j \in TaskIndex :
    (i # j /\ tasks[i].pc # "created" /\ tasks[j].pc # "created")
      => tasks[i].task_id # tasks[j].task_id

\* C3: a dispatch process appends one record, at the step in which it
\* reaches its terminal state and at no other: it has logged exactly when it
\* is done, the record is the last of the log at that step and carries the
\* process's task id and the time of the step; and the log only grows at
\* its end, by the records of the processes that are done.
C3_OneRecordPerDispatch ==
  [][ /\ IsPrefix(event_log, event_log')
      /\ Len(event_log') = Cardinality({i \in 1..Len(tasks') : tasks'[i].pc = "done"})
      /\ \A i \in 1..Len(tasks') :
           /\ Len(tasks'[i].logged) <= 1
           /\ (tasks'[i].pc = "done") <=> (Len(tasks'[i].logged) = 1)
           /\ (i <= Len(tasks) /\ tasks[i].pc = "done") => tasks'[i] = tasks[i]
           /\ (i <= Len(tasks) /\ tasks[i].pc # "done" /\ tasks'[i].pc = "done")
                => /\ tasks'[i].outcome \in
                        {"no_candidates", "unaccepted", "completed", "failed"}
                   /\ tasks'[i].logged = <<Len(event_log) + 1>>
                   /\ Len(event_log') = Len(event_log) + 1
                   /\ event_log'[Len(event_log')].task_id = tasks'[i].task_id
                   /\ event_log'[Len(event_log')].time = now'
    ]_vars

\* Two dispatch processes are done and the log holds their two records.
C3_Witness ==
  /\ Len(event_log) = 2
  /\ \E i, j \in TaskIndex :
       /\ i # j
       /\ tasks[i].pc = "done" /\ tasks[i].logged = <<1>>
       /\ tasks[j].pc = "done" /\ tasks[j].logged = <<2>>

\* C4: the worker a task_completed or task_failed record names has the
\* task type's skill and is within max_radius_km of the task's property,
\* and no dispatch process ever offers its task to a worker that lacks the
\* skill or is farther away.
C4_CandidateFiltering ==
  /\ \A i \in LogIndex :
       event_log[i].event \in AcceptedKinds =>
         \A w \in WorkersWithId(event_log[i].worker_id),
            q \in PropertiesNamed(event_log[i].property) :
           MeetsRequirement(w, q, event_log[i].type)
  /\ \A i \in TaskIndex :
       /\ \A k \in 1..Len(tasks[i].offered) :
            MeetsRequirement(tasks[i].offered[k], tasks[i].prop, tasks[i].type)
       /\ tasks[i].accepted_by # 0 =>
            MeetsRequirement(tasks[i].accepted_by, tasks[i].prop, tasks[i].type)

\* A worker was accepted and its record logged in a scenario that has, for
\* that task, a worker in range without the skill and a skilled worker out
\* of range.
C4_Witness ==
  \E i \in LogIndex :
    /\ event_log[i].event \in AcceptedKinds
    /\ \E q \in PropertiesNamed(event_log[i].property),
          u, f \in 1..Len(scn.workers) :
         LET skill == scn.task_types[event_log[i].type].skill
             dist(w) == Abs(scn.workers[w].lat - scn.properties[q].lat)
         IN  /\ skill \notin scn.workers[u].skills
             /\ dist(u) <= scn.max_radius_km
             /\ skill \in scn.workers[f].skills
             /\ dist(f) > scn.max_radius_km

\* C5: a dispatch process makes at most 10 acceptance draws, and when more
\* than 10 workers qualify and the 10 nearest reject, it ends unaccepted
\* having offered exactly the 10 nearest.
C5_OfferLoopBound ==
  \A i \in TaskIndex :
    /\ Len(tasks[i].offered) <= 10
    /\ (tasks[i].outcome = "unaccepted" /\ Len(tasks[i].candidates) > 10)
         => tasks[i].offered = [k \in 1..10 |-> tasks[i].candidates[k][1]]

\* A task with eleven candidates ended unaccepted after ten offers.
C5_Witness ==
  \E i \in TaskIndex :
    /\ tasks[i].outcome = "unaccepted"
    /\ Len(tasks[i].candidates) = 11
    /\ Len(tasks[i].offered) = 10

\* C6: every task_failed, task_unaccepted or task_failed_no_candidates
\* record carries a payout field, and it is 0.
C6_FailureRecordsPayZero ==
  \A i \in LogIndex :
    event_log[i].event \in FailureKinds =>
      /\ "payout" \in DOMAIN event_log[i]
      /\ event_log[i].payout = 0

\* C7 as claimed, read on the records that carry a payout (C6 is about the
\* records that carry none): the payout is 0 exactly when the kind denotes
\* failure or non-acceptance, and every task_completed record has a
\* strictly positive payout.
C7_ZeroPayoutIffFailure ==
  \A i \in LogIndex :
    "payout" \in DOMAIN event_log[i] =>
      /\ (event_log[i].payout = 0) <=> (event_log[i].event \in FailureKinds)
      /\ event_log[i].event = "task_completed" => event_log[i].payout > 0

\* C7 as amended: in a record that carries a payout, the payout is 0 when
\* the record is task_failed, and in a task_completed record it is 0 when
\* the task type's base payout is 0 and strictly positive when the base
\* payout is a cent or more.
C7_PayoutSign ==
  \A i \in LogIndex :
    "payout" \in DOMAIN event_log[i] =>
      LET base == scn.task_types[event_log[i].type].base_payout
      IN  /\ event_log[i].event = "task_failed" => event_log[i].payout = 0
          /\ event_log[i].event = "task_completed" =>
               /\ base = 0 => event_log[i].payout = 0
               /\ base >= 1 => event_log[i].payout > 0

\* The log holds a completed task of a type whose base payout is 0, and a
\* failed task of a type whose base payout is positive.
C7_Witness ==
  /\ \E i \in LogIndex :
       /\ event_log[i].event = "task_completed"
       /\ scn.task_types[event_log[i].type].base_payout = 0
  /\ \E i \in LogIndex :
       /\ event_log[i].event = "task_failed"
       /\ scn.task_types[event_log[i].type].base_payout > 0

\* C8: in a record with a within_sla flag, the flag is true exactly when
\* the wait_minutes stored in the record (tenths of a minute) is <= the
\* task type's SLA threshold.
C8_FlagMatchesStoredWait ==
  \A i \in LogIndex :
    "within_sla" \in DOMAIN event_log[i] =>
      (event_log[i].within_sla <=>
         event_log[i].wait_minutes
           <= scn.task_types[event_log[i].type].sla_minutes * 10)

\* C9 as claimed: the payout of a task_completed record equals base x 1.1
\* when finish - start <= SLA and base x 0.9 otherwise (compared in tenths
\* of a cent, the record's payout being in cents).
C9_PayoutIsBaseTimesMultiplier ==
  \A i \in TaskIndex :
    tasks[i].outcome = "completed" =>
      LET rec == event_log[tasks[i].logged[1]]
          ttype == scn.task_types[tasks[i].type]
          wait == rec.time - tasks[i].start_time
      IN  rec.payout * 10 =
            IF wait <= ttype.sla_minutes * TicksPerMinute
              THEN ttype.base_payout * 11
              ELSE ttype.base_payout * 9

\* C9 as amended: the payout of a task_completed record equals base x 1.1
\* rounded to two decimals when finish - start <= SLA and base x 0.9
\* rounded to two decimals otherwise, and the 1.1 multiplier is paid
\* exactly on the records whose within_sla flag is true.
C9_PayoutIsRoundedMultiple ==
  \A i \in TaskIndex :
    tasks[i].outcome = "completed" =>
      LET rec == event_log[tasks[i].logged[1]]
          ttype == scn.task_types[tasks[i].type]
          wait == rec.time - tasks[i].start_time
      IN  /\ rec.event = "task_completed"
          /\ rec.within_sla <=> (wait <= ttype.sla_minutes * TicksPerMinute)
          /\ rec.payout =
               RoundDiv(IF rec.within_sla THEN ttype.base_payout * 11
                                          ELSE ttype.base_payout * 9, 10)

\* A task whose base x 1.1 is no whole number of cents completed with a
\* wait equal to its SLA threshold.
C9_Witness ==
  \E i \in TaskIndex :
    /\ tasks[i].outcome = "completed"
    /\ LET rec == event_log[tasks[i].logged[1]]
           ttype == scn.task_types[tasks[i].type]
       IN  /\ rec.time - tasks[i].start_time
                = ttype.sla_minutes * TicksPerMinute
           /\ (ttype.base_payout * 11) % 10 # 0
           /\ rec.within_sla


\* A configuration in error, as section 7 of the specification lists them.
Injective(f) == \A a, b \in DOMAIN f : a # b => f[a] # f[b]
InvalidConfig(c) ==
  \/ c.sim_minutes <= 0
  \/ \E q \in 1..Len(c.properties) :
       \E k \in 1..Len(c.properties[q].task_rates_per_hour) :
         c.properties[q].task_rates_per_hour[k][1] \notin DOMAIN c.task_types
  \/ ~Injective([q \in 1..Len(c.properties) |-> c.properties[q].id])
  \/ ~Injective([w \in 1..Len(c.workers) |-> c.workers[w].id])

\* C11: a configuration in error produces an error before the clock starts:
\* run() never gets to resume a process (the generators' Initialize events
\* stay queued at time 0, no dispatch process exists) and the event log
\* stays empty.
C11_ConfigErrorsFailFast ==
  InvalidConfig(scn) =>
    /\ status \in {"ready", "error"}
    /\ now = 0
    /\ \A e \in queue : e.kind = "gen" /\ e.urgent
    /\ tasks = <<>>
    /\ event_log = <<>>


\* The time a dispatch process was spawned at: that of its pending
\* Initialize event, or the start time it recorded when that event ran.
SpawnTime(i) ==
  IF tasks[i].pc = "created"
    THEN (CHOOSE e \in queue : e.kind = "task" /\ e.ref = i).time
    ELSE tasks[i].start_time
\* The hourly rate of task type tname at property q.
RateOf(q, tname) ==
  LET rates == scn.properties[q].task_rates_per_hour
  IN  rates[CHOOSE k \in 1..Len(rates) : rates[k][1] = tname][2]

\* C12: each generator is evaluated once per virtual minute, at the whole
\* minutes 1, 2, 3, ... (one pending resumption per property, at a whole
\* minute no more than a minute ahead), and no two dispatch processes are spawned for the same
\* property and task type in the same minute, whatever the hourly rate.
C12_OneArrivalPerMinute ==
  /\ \A i \in TaskIndex :
       /\ SpawnTime(i) % TicksPerMinute = 0
       /\ SpawnTime(i) >= TicksPerMinute
       /\ \A j \in TaskIndex :
            (i # j /\ tasks[i].prop = tasks[j].prop
                   /\ tasks[i].type = tasks[j].type)
              => SpawnTime(i) # SpawnTime(j)
  /\ status = "running" =>
       \A q \in 1..Len(scn.properties) :
         LET pending == {e \in queue : e.kind = "gen" /\ e.ref = q}
         IN  /\ Cardinality(pending) = 1
             /\ \A e \in pending :
                  /\ e.time % TicksPerMinute = 0
                  /\ IF e.urgent THEN e.time = 0
                     ELSE /\ e.time >= TicksPerMinute
                          /\ now <= e.time
                          /\ e.time <= now + TicksPerMinute

\* Two dispatches of a task type whose rate is 60 an hour or more were
\* spawned for one property in consecutive minutes.
C12_Witness ==
  \E i, j \in TaskIndex :
    /\ tasks[i].prop = tasks[j].prop
    /\ tasks[i].type = tasks[j].type
    /\ RateOf(tasks[i].prop, tasks[i].type) >= 60
    /\ SpawnTime(i) = TicksPerMinute
    /\ SpawnTime(j) = 2 * TicksPerMinute


\* C13: with no worker in the scenario, every dispatch process that has
\* started is done at once with a task_failed_no_candidates record whose
\* time is the task's start time, and the log holds no other kind of
\* record.
C13_ZeroWorkers ==
  Len(scn.workers) = 0 =>
    /\ \A i \in TaskIndex :
         tasks[i].pc # "created" =>
           /\ tasks[i].pc = "done"
           /\ tasks[i].outcome = "no_candidates"
           /\ Len(tasks[i].logged) = 1
           /\ tasks[i].logged[1] \in LogIndex
           /\ event_log[tasks[i].logged[1]].event = "task_failed_no_candidates"
           /\ event_log[tasks[i].logged[1]].time = tasks[i].start_time
           /\ event_log[tasks[i].logged[1]].type = tasks[i].type
    /\ \A k \in LogIndex : event_log[k].event = "task_failed_no_candidates"
    /\ Len(event_log) = Cardinality({i \in TaskIndex : tasks[i].pc # "created"})

\* A run without workers has dispatched two tasks, in different minutes.
C13_Witness ==
  /\ Len(scn.workers) = 0
  /\ Len(event_log) = 2
  /\ event_log[1].time < event_log[2].time


\* The scenario has a single worker, whose acceptance probability is 0.
SingleRejectingWorker ==
  Len(scn.workers) = 1 /\ scn.workers[1].acceptance_rate = 0

\* C14 as claimed: with a single worker of acceptance probability 0, when
\* the run has ended every task dispatched for that worker's skill within
\* its radius has a task_unaccepted record in the log, those dispatched in
\* the last minute before the horizon included.
C14_EveryTaskUnaccepted ==
  (SingleRejectingWorker /\ status = "stopped") =>
    \A i \in TaskIndex :
      MeetsRequirement(1, tasks[i].prop, tasks[i].type) =>
        /\ Len(tasks[i].logged) = 1
        /\ event_log[tasks[i].logged[1]].event = "task_unaccepted"

\* C14 as amended: with a single worker of acceptance probability 0, a task
\* dispatched for that worker's skill within its radius never yields a
\* record of another kind than task_unaccepted; when the run has ended it
\* has its task_unaccepted record, timed a minute after its start, if it
\* was dispatched more than a minute before the horizon, and no record at
\* all if it was dispatched in the last minute before the horizon.
C14_UnacceptedUnlessLastMinute ==
  SingleRejectingWorker =>
    \A i \in TaskIndex :
      MeetsRequirement(1, tasks[i].prop, tasks[i].type) =>
        /\ tasks[i].outcome \in {"", "unaccepted"}
        /\ \A k \in 1..Len(tasks[i].logged) :
             /\ event_log[tasks[i].logged[k]].event = "task_unaccepted"
             /\ event_log[tasks[i].logged[k]].time
                  = tasks[i].start_time + TicksPerMinute
        /\ status = "stopped" =>
             IF tasks[i].start_time + TicksPerMinute < HorizonTicks
               THEN Len(tasks[i].logged) = 1
               ELSE Len(tasks[i].logged) = 0 /\ tasks[i].pc = "offering"

\* The run has ended with one task logged unaccepted and one, dispatched
\* in the last minute, waiting out its rejection.
C14_Witness ==
  /\ SingleRejectingWorker
  /\ status = "stopped"
  /\ \E i, j \in TaskIndex :
       /\ MeetsRequirement(1, tasks[i].prop, tasks[i].type)
       /\ MeetsRequirement(1, tasks[j].prop, tasks[j].type)
       /\ tasks[i].outcome = "unaccepted"
       /\ tasks[j].start_time = HorizonTicks - TicksPerMinute
       /\ tasks[j].pc = "offering"


\* The workers that meet the requirement of task i.
Qualifying(i) ==
  {w \in 1..Len(scn.workers) : MeetsRequirement(w, tasks[i].prop, tasks[i].type)}
\* Task i has exactly one qualifying worker, who always accepts and always
\* completes.
SureWorker(i) ==
  /\ Cardinality(Qualifying(i)) = 1
  /\ \A w \in Qualifying(i) :
       /\ scn.workers[w].acceptance_rate = 100
       /\ scn.workers[w].reliability = 100
\* The kilometres between task i's property and worker w.
KmBetween(i, w) ==
  Abs(scn.workers[w].lat - scn.properties[tasks[i].prop].lat)

\* C15 as claimed: a task whose only qualifying worker always accepts and
\* always completes never ends failed, unaccepted or no_candidates; it is
\* offered to that worker alone, at its start; and its record is
\* task_completed with that worker, travel_minutes equal to
\* distance_km / speed_kmph x 60 and payout equal to base_payout x 1.1 or
\* x 0.9 (compared without fractions: minutes in tenths, money in tenths
\* of a cent).
C15_SureWorkerExact ==
  \A i \in TaskIndex :
    (tasks[i].pc # "created" /\ SureWorker(i)) =>
      \A w \in Qualifying(i) :
        /\ tasks[i].outcome \in {"", "completed"}
        /\ tasks[i].offered = <<w>>
        /\ tasks[i].accepted_by = w
        /\ tasks[i].outcome = "completed" =>
             LET rec == event_log[tasks[i].logged[1]]
                 base == scn.task_types[tasks[i].type].base_payout
             IN  /\ rec.event = "task_completed"
                 /\ rec.worker_id = scn.workers[w].id
                 /\ rec.travel_minutes * scn.workers[w].speed_kmph
                      = KmBetween(i, w) * 600
                 /\ rec.payout * 10 \in {base * 11, base * 9}

\* C15 as amended: as claimed, with travel_minutes equal to
\* distance_km / speed_kmph x 60 rounded to one decimal and payout equal to
\* base_payout x 1.1 or x 0.9 rounded to two decimals; the record is
\* logged at start + travel + work, and a task still in flight when the
\* run has ended has its next resumption at or after the horizon.
C15_SureWorkerRounded ==
  \A i \in TaskIndex :
    (tasks[i].pc # "created" /\ SureWorker(i)) =>
      \A w \in Qualifying(i) :
        /\ tasks[i].outcome \in {"", "completed"}
        /\ tasks[i].offered = <<w>>
        /\ tasks[i].accepted_by = w
        /\ tasks[i].outcome = "completed" =>
             LET rec == event_log[tasks[i].logged[1]]
                 base == scn.task_types[tasks[i].type].base_payout
                 travel == (KmBetween(i, w) * 60 * TicksPerMinute)
                              \div scn.workers[w].speed_kmph
             IN  /\ rec.event = "task_completed"
                 /\ rec.worker_id = scn.workers[w].id
                 /\ rec.travel_minutes
                      = RoundDiv(KmBetween(i, w) * 600, scn.workers[w].speed_kmph)
                 /\ rec.payout \in {RoundDiv(base * 11, 10), RoundDiv(base * 9, 10)}
                 /\ rec.time = tasks[i].start_time + travel + tasks[i].work_duration
                 /\ rec.time < HorizonTicks
        /\ (status = "stopped" /\ tasks[i].pc # "done") =>
             \E e \in queue :
               e.kind = "task" /\ e.ref = i /\ e.time >= HorizonTicks

\* The task of the specification's scenario (5 km at 20 km/h) completed
\* with travel_minutes 15.0, once within its SLA threshold and, in another
\* run, beyond it.
C15_Witness ==
  \E i \in TaskIndex :
    /\ SureWorker(i)
    /\ tasks[i].outcome = "completed"
    /\ event_log[tasks[i].logged[1]].travel_minutes = 150
    /\ ~event_log[tasks[i].logged[1]].within_sla
    /\ status = "stopped"


\* C16: the candidates of every task are in ascending order of distance
\* from its property; the workers offered so far are, in that order, the
\* first of the (at most 10) attempted candidates, none skipped and none
\* offered twice; and once a worker has accepted, it is the last one
\* offered, so every candidate offered before it is at most as far and
\* was rejected, and no candidate after it is offered.
C16_OffersAscendingUntilAccepted ==
  \A i \in TaskIndex :
    LET t == tasks[i]
        n == Len(t.candidates)
    IN  /\ \A k \in 1..n : t.candidates[k][2] = KmBetween(i, t.candidates[k][1])
        /\ \A k, l \in 1..n :
             k < l => /\ KmBetween(i, t.candidates[k][1])
                           <= KmBetween(i, t.candidates[l][1])
                      /\ t.candidates[k][1] # t.candidates[l][1]
        /\ Len(t.offered) <= Min(MaxOffers, n)
        /\ \A k \in 1..Len(t.offered) : t.offered[k] = t.candidates[k][1]
        /\ t.accepted_by # 0 =>
             /\ t.offered # <<>>
             /\ t.accepted_by = t.offered[Len(t.offered)]
             /\ t.dist_km = KmBetween(i, t.accepted_by)
        /\ t.pc \in {"traveling", "working"} => t.accepted_by # 0
        /\ t.outcome \in {"completed", "failed"} => t.accepted_by # 0
        /\ t.outcome \in {"unaccepted", "no_candidates"} => t.accepted_by = 0

\* A task accepted by its second-nearest candidate after the nearest one
\* rejected, the nearest standing later in the list of workers.
C16_Witness ==
  \E i \in TaskIndex :
    /\ Len(tasks[i].offered) = 2
    /\ tasks[i].accepted_by = tasks[i].offered[2]
    /\ tasks[i].offered[1] > tasks[i].offered[2]
    /\ KmBetween(i, tasks[i].offered[1]) < KmBetween(i, tasks[i].offered[2])


\* The tasks whose dispatch process has started and has not returned.
InFlight == {i \in TaskIndex : tasks[i].pc \in {"offering", "traveling", "working"}}

\* C17: while run(until = H) is running, the virtual time of every
\* resumption is below H, so every task starts and every record is
\* logged strictly before H; once it has stopped, every process left is
\* suspended until H or later, and a dispatch process among them (in its
\* offer backoff, its travel or its work) has contributed no record.
C17_NothingResumedAtHorizon ==
  /\ status = "running" => now < HorizonTicks
  /\ \A i \in LogIndex : event_log[i].time < HorizonTicks
  /\ \A i \in TaskIndex :
       /\ tasks[i].pc # "created" => tasks[i].start_time < HorizonTicks
       /\ tasks[i].pc # "done" => tasks[i].logged = <<>>
  /\ status = "stopped" =>
       /\ now = HorizonTicks
       /\ \A e \in queue : e.time >= HorizonTicks
       /\ \A i \in TaskIndex :
            /\ tasks[i].pc # "created"
            /\ i \in InFlight =>
                 /\ \E e \in queue : e.kind = "task" /\ e.ref = i
                 /\ tasks[i].logged = <<>>

\* The run has stopped with a dispatch process abandoned whose next
\* resumption fell exactly at the horizon, and with another task logged.
C17_Witness ==
  /\ status = "stopped"
  /\ \E i \in InFlight :
       \E e \in queue :
         e.kind = "task" /\ e.ref = i /\ e.time = HorizonTicks
  /\ event_log # <<>>


\* The ticks worker w travels to the property of task i.
TravelTicks(i, w) ==
  (KmBetween(i, w) * 60 * TicksPerMinute) \div scn.workers[w].speed_kmph

\* C18: every rejection, the last attempted candidate's included,
\* suspends the dispatch for exactly one minute: a dispatch waiting after
\* a rejection resumes at start_time + the number of rejections; a
\* task_unaccepted record is timestamped start_time + min(10, number of
\* candidates); a task_completed or task_failed record is timestamped
\* start_time + the number of rejections before the acceptance + travel
\* minutes + work minutes.
C18_OfferLatency ==
  \A i \in TaskIndex :
    LET t == tasks[i]
    IN  /\ t.pc = "offering" =>
             \E e \in queue :
               /\ e.kind = "task" /\ e.ref = i
               /\ e.time = t.start_time + TicksPerMinute * Len(t.offered)
        /\ t.outcome = "unaccepted" =>
             event_log[t.logged[1]].time =
               t.start_time + TicksPerMinute * Min(MaxOffers, Len(t.candidates))
        /\ t.outcome \in {"completed", "failed"} =>
             event_log[t.logged[1]].time =
               t.start_time + TicksPerMinute * (Len(t.offered) - 1)
                 + TravelTicks(i, t.accepted_by) + t.work_duration

\* A task logged unaccepted one minute after its start, its only
\* candidate having rejected, beside a task completed or failed by the
\* worker who accepted after one rejection, logged more than two minutes
\* after its start.
C18_Witness ==
  /\ \E i \in TaskIndex :
       /\ tasks[i].outcome = "unaccepted"
       /\ Len(tasks[i].candidates) = 1
       /\ event_log[tasks[i].logged[1]].time
            = tasks[i].start_time + TicksPerMinute
  /\ \E i \in TaskIndex :
       /\ tasks[i].outcome \in {"completed", "failed"}
       /\ Len(tasks[i].offered) = 2
       /\ event_log[tasks[i].logged[1]].time
            > tasks[i].start_time + 2 * TicksPerMinute


\* The workers that are candidates of task i.
CandidateSet(i) == {tasks[i].candidates[k][1] : k \in 1..Len(tasks[i].candidates)}

\* C19: a worker's acceptance of one task reserves nothing: whenever a
\* worker has accepted a task, every other task that has started and
\* whose requirement the worker meets has the worker among its
\* candidates, also when it started while the worker was traveling or
\* working; the candidates of a started task are all the workers that
\* meet its requirement, whatever the other tasks have accepted.
C19_NoWorkerExclusivity ==
  /\ \A i, j \in TaskIndex :
       (/\ i # j
        /\ tasks[i].pc # "created"
        /\ tasks[j].accepted_by # 0
        /\ MeetsRequirement(tasks[j].accepted_by, tasks[i].prop, tasks[i].type))
         => tasks[j].accepted_by \in CandidateSet(i)
  /\ \A i \in TaskIndex :
       tasks[i].pc # "created" =>
         CandidateSet(i) =
           {w \in 1..Len(scn.workers) :
              MeetsRequirement(w, tasks[i].prop, tasks[i].type)}

\* Two distinct dispatch processes are traveling or working at once with
\* the same accepted worker, the later one started after the worker had
\* accepted the earlier.
C19_Witness ==
  \E i, j \in TaskIndex :
    /\ i # j
    /\ tasks[i].pc \in {"traveling", "working"}
    /\ tasks[j].pc \in {"traveling", "working"}
    /\ tasks[i].accepted_by = tasks[j].accepted_by
    /\ tasks[i].start_time < tasks[j].start_time

\* C20: in every reachable state the records of the event log are in
\* order of virtual time: time[i] <= time[j] for any positions i < j.
C20_LogOrderedByTime ==
  \A i, j \in LogIndex : i < j => event_log[i].time <= event_log[j].time

\* Two dispatch processes have logged at different times: the log holds
\* records of two tasks, the later one at a strictly later time.
C20_Witness ==
  \E i, j \in LogIndex :
    /\ i < j
    /\ event_log[i].time < event_log[j].time
    /\ \E a, b \in TaskIndex :
         a # b /\ tasks[a].logged = <<i>> /\ tasks[b].logged = <<j>>

====
